---- MODULE Spec2Model ----
(***************************************************************************)
(* The option manager of ECharts (src/unnamed/part_001, OptionManager):   *)
(* setOption / mountOption / getTimelineOption / getMediaOption, the      *)
(* parser parseRawOption, the media query evaluator applyMediaQuery and   *)
(* the base merge mergeOption.                                            *)
(*                                                                         *)
(* Option trees are JavaScript values.  A value is a tagged record:       *)
(*   Null              null and undefined (the code tests them with       *)
(*                     `== null` and truthiness, which do not tell them   *)
(*                     apart)                                             *)
(*   Num(n), Str(s)    primitives                                         *)
(*   Obj(own, f)       a plain object, f its own keys                     *)
(*   Arr(own, e)       an array                                           *)
(*   Typed(own,prim,e) a typed array; prim is zrender's primitive mark    *)
(* `own` names the allocation an object comes from: "doc" (built by the   *)
(* caller), "in" (allocated inside the manager: by a clone on ingestion,  *)
(* by merge, by a literal) and "out" (allocated by the clone that builds  *)
(* a return value).  Two occurrences of an object with the same `own` may *)
(* be the same JavaScript object; with different `own` they never are.    *)
(***************************************************************************)
EXTENDS Integers, Sequences, FiniteSets, TLC

VARIABLES
    \* ---- OptionManager fields
    optionBackup,          \* _optionBackup: Null until the first setOption
    newBaseOption,         \* _newBaseOption
    timelineOptions,       \* _timelineOptions (mounted copy)
    mediaList,             \* _mediaList (mounted copy)
    mediaDefault,          \* _mediaDefault (mounted copy)
    currentMediaIndices,   \* _currentMediaIndices
    \* ---- the caller
    optionPreprocessorFuncs, \* the preprocessors it passes to setOption
    \* ---- the last call and what it gave back
    op,                    \* the last operation and its arguments
    ret,                   \* its return value (Null for none)
    \* ---- history kept for the properties
    nSubmits,              \* documents setOption accepted so far
    firstBase,             \* the base parsed from the first accepted document
    cumBase,               \* fold of mergeOption over the parsed bases
    lastDoc,               \* the caller's document of the last setOption
    preCalls,              \* preprocessor calls made by the last setOption
    lastSel,               \* indices computed by the last getMediaOption
    handed,                \* allocations of objects the caller holds
    \* ---- mergeOption applied to drawn inputs
    oldOption, newOption, merged, mst,
    \* ---- applyMediaQuery applied to drawn inputs
    query, ecWidth, ecHeight, applicable, qst,
    \* ---- the function returned by getIsInPiecewiseRange (HeatmapView)
    pieceList,             \* the pieces' intervals, normalized
    selected,              \* selected[i] for the piece of index i (0-based)
    lastIndex,             \* the index remembered by the returned function
    val,                   \* the argument of its last call
    isInRange,             \* what that call returned
    hst

mgrVars == <<optionBackup, newBaseOption, timelineOptions, mediaList,
             mediaDefault, currentMediaIndices, op, ret, nSubmits, firstBase,
             cumBase, lastDoc, preCalls, lastSel, handed,
             optionPreprocessorFuncs>>
mergeVars == <<oldOption, newOption, merged, mst>>
queryVars == <<query, ecWidth, ecHeight, applicable, qst>>
heatVars == <<pieceList, selected, lastIndex, val, isInRange, hst>>
vars == <<mgrVars, mergeVars, queryVars, heatVars>>

----------------------------------------------------------------------------
(* Values *)

Null == [t |-> "null"]
Num(n) == [t |-> "num", n |-> n]
Str(s) == [t |-> "str", s |-> s]
Obj(own, f) == [t |-> "obj", own |-> own, f |-> f]
Arr(own, e) == [t |-> "arr", own |-> own, e |-> e]
Typed(own, prim, e) == [t |-> "typed", own |-> own, prim |-> prim, e |-> e]
NoKeys == [k \in {} |-> Null]

\* o[k]: undefined for a missing key and for a non-object
Get(o, k) == IF o.t = "obj" /\ k \in DOMAIN o.f THEN o.f[k] ELSE Null
\* o[k] = v
Put(o, k, v) == [o EXCEPT !.f = (k :> v) @@ o.f]
\* JavaScript truthiness of the values above
Truthy(v) ==
    /\ v # Null
    /\ ~(v.t = "num" /\ v.n = 0)
    /\ ~(v.t = "str" /\ v.s = "")

RECURSIVE Strip(_)
\* The tree without allocation marks: deep equality of two trees is
\* Strip(a) = Strip(b).
Strip(v) ==
    CASE v.t = "obj" -> [t |-> "obj", f |-> [k \in DOMAIN v.f |-> Strip(v.f[k])]]
      [] v.t = "arr" -> [t |-> "arr", e |-> [i \in 1..Len(v.e) |-> Strip(v.e[i])]]
      [] v.t = "typed" -> [t |-> "typed", e |-> v.e]
      [] OTHER -> v
StripSeq(s) == [i \in 1..Len(s) |-> Strip(s[i])]

RECURSIVE Owners(_)
\* The allocations of the objects of a tree
Owners(v) ==
    CASE v.t = "obj" -> {v.own} \cup UNION {Owners(v.f[k]) : k \in DOMAIN v.f}
      [] v.t = "arr" -> {v.own} \cup UNION {Owners(v.e[i]) : i \in 1..Len(v.e)}
      [] v.t = "typed" -> {v.own}
      [] OTHER -> {}

----------------------------------------------------------------------------
(* zrender/src/core/util: clone, merge *)

isObject(v) == v.t \in {"obj", "arr", "typed"}
isArray(v) == v.t = "arr"
isTypedArray(v) == v.t = "typed"
\* zrender marks an object primitive with setAsPrimitive; this program
\* marks typed arrays only (setOption)
isPrimitive(v) == v.t = "typed" /\ v.prim
setAsPrimitive(v) == [v EXCEPT !.prim = TRUE]

RECURSIVE clone(_, _)
\* clone(source): a deep copy; the new objects belong to allocation `own`.
\* An object marked primitive is not copied: the result shares it.
clone(source, own) ==
    CASE source.t = "arr" ->
            Arr(own, [i \in 1..Len(source.e) |-> clone(source.e[i], own)])
      [] source.t = "typed" ->
            IF isPrimitive(source) THEN source ELSE Typed(own, FALSE, source.e)
      [] source.t = "obj" ->
            Obj(own, [k \in DOMAIN source.f |-> clone(source.f[k], own)])
      [] OTHER -> source

\* merge's test for descending into a property instead of assigning it
CanDescend(targetProp, sourceProp) ==
    /\ isObject(sourceProp) /\ isObject(targetProp)
    /\ ~isArray(sourceProp) /\ ~isArray(targetProp)
    /\ ~isPrimitive(sourceProp) /\ ~isPrimitive(targetProp)

Max(a, b) == IF a >= b THEN a ELSE b

RECURSIVE merge(_, _, _)
\* merge(target, source, overwrite): target after the in-place merge (the
\* return value).  `for (key in source)` runs over the own keys of an
\* object and over the indices of an array.  The inputs drawn never merge
\* an array into a plain object or the reverse.
merge(target, source, overwrite) ==
    IF ~isObject(source) \/ ~isObject(target)
    THEN IF overwrite THEN clone(source, "in") ELSE target
    ELSE CASE target.t = "obj" /\ source.t = "obj" ->
                [target EXCEPT !.f =
                    [key \in DOMAIN target.f \cup DOMAIN source.f |->
                        IF key \notin DOMAIN source.f THEN target.f[key]
                        ELSE IF key \in DOMAIN target.f
                                /\ CanDescend(target.f[key], source.f[key])
                        THEN merge(target.f[key], source.f[key], overwrite)
                        ELSE IF overwrite \/ key \notin DOMAIN target.f
                        THEN clone(source.f[key], "in")
                        ELSE target.f[key]]]
           [] target.t = "arr" /\ source.t \in {"arr", "typed"} ->
                [target EXCEPT !.e =
                    [i \in 1..Max(Len(target.e), Len(source.e)) |->
                        IF i > Len(source.e) THEN target.e[i]
                        ELSE IF source.t = "typed"
                        THEN (IF overwrite \/ i > Len(target.e)
                              THEN Num(source.e[i]) ELSE target.e[i])
                        ELSE IF i <= Len(target.e)
                                /\ CanDescend(target.e[i], source.e[i])
                        THEN merge(target.e[i], source.e[i], overwrite)
                        ELSE IF overwrite \/ i > Len(target.e)
                        THEN clone(source.e[i], "in")
                        ELSE target.e[i]]]
           [] target.t = "typed" /\ source.t = "typed" ->
                \* a typed array keeps its length
                [target EXCEPT !.e =
                    [i \in 1..Len(target.e) |->
                        IF i <= Len(source.e) /\ overwrite
                        THEN source.e[i] ELSE target.e[i]]]

----------------------------------------------------------------------------
(* util/model: normalizeToArray, mappingToExists; Component.hasClass.      *)
(* These files are not among the sources; they follow sections 4.2 and 4.3 *)
(* of the specification.                                                   *)

\* The main types registered as components: reconcilable collections
ComponentTypes == {"series"}
hasClass(mainType) == mainType \in ComponentTypes

\* "normalize both sides to ordered sequences (a bare object counts as a
\* one-element sequence)"
normalizeToArray(value) ==
    IF value.t = "arr" THEN value.e
    ELSE IF value = Null THEN <<>>
    ELSE <<value>>

MinOf(S) == CHOOSE x \in S : \A y \in S : x <= y

\* One incoming item placed into the pairing built so far.  nExist is the
\* number of existing items: the slots 1..nExist.
PlaceIncoming(result, nExist, cptOption) ==
    LET free == {j \in 1..nExist : result[j].option = Null}
        byId == {j \in free : /\ Get(cptOption, "id") # Null
                              /\ Get(result[j].exist, "id") = Get(cptOption, "id")}
        \* an index reference is a 0-based ordinal of an existing slot
        byIndex == {j \in free : Get(cptOption, "index") = Num(j - 1)}
    IN  IF byId # {}
        THEN [result EXCEPT ![MinOf(byId)].option = cptOption]
        ELSE IF byIndex # {}
        THEN [result EXCEPT ![MinOf(byIndex)].option = cptOption]
        ELSE IF free # {}
        THEN [result EXCEPT ![MinOf(free)].option = cptOption]
        ELSE Append(result, [exist |-> Null, option |-> cptOption])

RECURSIVE PlaceAll(_, _, _, _)
PlaceAll(result, nExist, newCptOptions, i) ==
    IF i > Len(newCptOptions) THEN result
    ELSE PlaceAll(PlaceIncoming(result, nExist, newCptOptions[i]),
                  nExist, newCptOptions, i + 1)

\* mappingToExists(exists, newCptOptions): one {exist, option} pair per
\* slot; the existing slots keep their order ("update in place"), the new
\* items follow in incoming order.
mappingToExists(exists, newCptOptions) ==
    PlaceAll(<<>> \o [j \in 1..Len(exists) |-> [exist |-> exists[j], option |-> Null]],
             Len(exists), newCptOptions, 1)

----------------------------------------------------------------------------
(* mergeOption *)

\* MergedItem with the unpaired existing item lost: `item.option` alone is
\* kept where the code keeps `item.exist || item.option`
MergedItemDropsUnpaired(item) ==
    IF item.option # Null /\ item.exist # Null
    THEN merge(item.exist, item.option, TRUE)
    ELSE item.option

\* One item of the mapping result turned into the component option kept
MergedItem(item) ==
    IF item.option # Null /\ item.exist # Null
    THEN merge(item.exist, item.option, TRUE)
    ELSE IF item.exist # Null THEN item.exist ELSE item.option

\* MergedCpt merging without overwrite: merge(.., false)
MergedCptNoOverwrite(oldCptOpt, newCptOpt, mainType) ==
    IF ~hasClass(mainType)
    THEN merge(oldCptOpt, newCptOpt, FALSE)
    ELSE LET mapResult == mappingToExists(normalizeToArray(oldCptOpt),
                                          normalizeToArray(newCptOpt))
         IN  Arr("in", [i \in 1..Len(mapResult) |->
                IF mapResult[i].option # Null /\ mapResult[i].exist # Null
                THEN merge(mapResult[i].exist, mapResult[i].option, FALSE)
                ELSE IF mapResult[i].exist # Null THEN mapResult[i].exist
                ELSE mapResult[i].option])

\* MergedCpt mapping over the existing items instead of the mapping result:
\* the items without an existing counterpart are lost
MergedCptDropsNew(oldCptOpt, newCptOpt, mainType) ==
    IF ~hasClass(mainType)
    THEN merge(oldCptOpt, newCptOpt, TRUE)
    ELSE LET exists == normalizeToArray(oldCptOpt)
             mapResult == mappingToExists(exists, normalizeToArray(newCptOpt))
         IN  Arr("in", [i \in 1..Len(exists) |->
                IF mapResult[i].option # Null
                THEN merge(mapResult[i].exist, mapResult[i].option, TRUE)
                ELSE mapResult[i].exist])

\* oldOption[mainType] after the callback of `each(newOption, ...)` ran for
\* mainType with a non-null newCptOpt
MergedCpt(oldCptOpt, newCptOpt, mainType) ==
    IF ~hasClass(mainType)
    THEN merge(oldCptOpt, newCptOpt, TRUE)
    ELSE LET mapResult == mappingToExists(normalizeToArray(oldCptOpt),
                                          normalizeToArray(newCptOpt))
         IN  Arr("in", [i \in 1..Len(mapResult) |-> MergedItem(mapResult[i])])

\* Touched without the test of null: the callback runs for every key
TouchedWithNull(new) ==
    IF new.t = "obj" THEN DOMAIN new.f ELSE {}

\* The keys for which the callback of `each(newOption, ...)` goes past
\* `if (newCptOpt == null) return`.  A number has no key to iterate.
Touched(new) ==
    IF new.t = "obj"
    THEN {mainType \in DOMAIN new.f : new.f[mainType] # Null}
    ELSE {}

\* mergeOption(oldOption, newOption): oldOption after the in-place merge.
\* Each callback writes oldOption[mainType] only, so the order of the keys
\* does not matter.
mergeOption(old, new) ==
    LET src == IF ~Truthy(new) THEN Obj("in", NoKeys) ELSE new
        touched == Touched(src)
    IN  [old EXCEPT !.f =
            [mainType \in DOMAIN old.f \cup touched |->
                IF mainType \in touched
                THEN MergedCpt(Get(old, mainType), src.f[mainType], mainType)
                ELSE old.f[mainType]]]

----------------------------------------------------------------------------
(* applyMediaQuery, compare, indicesEquals *)

\* The attribute names of the queries drawn, as their characters
AttrChars ==
    [minWidth |-> <<"m","i","n","W","i","d","t","h">>,
     maxWidth |-> <<"m","a","x","W","i","d","t","h">>,
     minHeight |-> <<"m","i","n","H","e","i","g","h","t">>,
     maxHeight |-> <<"m","a","x","H","e","i","g","h","t">>,
     minAspectRatio |-> <<"m","i","n","A","s","p","e","c","t","R","a","t","i","o">>,
     maxAspectRatio |-> <<"m","a","x","A","s","p","e","c","t","R","a","t","i","o">>,
     width |-> <<"w","i","d","t","h">>,
     height |-> <<"h","e","i","g","h","t">>,
     aspectratio |-> <<"a","s","p","e","c","t","r","a","t","i","o">>,
     minFoo |-> <<"m","i","n","F","o","o">>,
     foo |-> <<"f","o","o">>,
     min |-> <<"m","i","n">>]

\* String.prototype.toLowerCase on the letters that occur
LowerChar(c) ==
    CASE c = "W" -> "w" [] c = "H" -> "h" [] c = "A" -> "a"
      [] c = "R" -> "r" [] c = "F" -> "f" [] OTHER -> c
toLowerCase(chars) == [i \in 1..Len(chars) |-> LowerChar(chars[i])]

\* attr.match(/^(min|max)?(.+)$/): the optional group takes "min" or "max"
\* when at least one character is left for (.+), and is undefined (here
\* the empty sequence) otherwise; no match (matched |-> FALSE) for "".
QUERY_REG(attr) ==
    IF Len(attr) = 0
    THEN [matched |-> FALSE, g1 |-> <<>>, g2 |-> <<>>]
    ELSE IF Len(attr) >= 4
            /\ SubSeq(attr, 1, 3) \in {<<"m","i","n">>, <<"m","a","x">>}
    THEN [matched |-> TRUE, g1 |-> SubSeq(attr, 1, 3),
          g2 |-> SubSeq(attr, 4, Len(attr))]
    ELSE [matched |-> TRUE, g1 |-> <<>>, g2 |-> attr]

\* A JavaScript number as the evaluator meets it: a ratio num/den of
\* integers (den > 0), Infinity, NaN, or undefined (a missing realMap entry)
Ratio(num, den) == [k |-> "ratio", num |-> num, den |-> den]
Division(a, b) ==
    IF b # 0 THEN Ratio(a, b)
    ELSE IF a = 0 THEN [k |-> "nan"] ELSE [k |-> "inf"]

\* realMap[realAttr]
RealMap(realAttr, w, h) ==
    CASE realAttr = AttrChars.width -> Ratio(w, 1)
      [] realAttr = AttrChars.height -> Ratio(h, 1)
      [] realAttr = AttrChars.aspectratio -> Division(w, h)
      [] OTHER -> [k |-> "undefined"]

\* compare(real, expect, operator); expect is an integer
compare(real, expect, operator) ==
    IF operator = <<"m","i","n">>
    THEN CASE real.k = "ratio" -> real.num >= expect * real.den
           [] real.k = "inf" -> TRUE
           [] OTHER -> FALSE
    ELSE IF operator = <<"m","a","x">>
    THEN CASE real.k = "ratio" -> real.num <= expect * real.den
           [] OTHER -> FALSE
    ELSE CASE real.k = "ratio" -> real.num = expect * real.den
           [] OTHER -> FALSE

\* The callback of zrUtil.each(query, ...) for one attribute: TRUE when it
\* leaves `applicatable` alone, FALSE when it sets it to false
ConstraintPasses(attr, value, w, h) ==
    LET matched == QUERY_REG(AttrChars[attr])
    IN  IF ~matched.matched \/ matched.g1 = <<>> \/ matched.g2 = <<>>
        THEN TRUE
        ELSE compare(RealMap(toLowerCase(matched.g2), w, h), value.n, matched.g1)

\* applyMediaQuery(query, ecWidth, ecHeight)
applyMediaQuery(q, w, h) ==
    \A attr \in DOMAIN q.f : ConstraintPasses(attr, q.f[attr], w, h)

RECURSIVE Digits(_)
\* The decimal digits of a natural number
Digits(n) ==
    LET d == <<"0","1","2","3","4","5","6","7","8","9">>[(n % 10) + 1]
    IN  IF n < 10 THEN <<d>> ELSE Append(Digits(n \div 10), d)
NumberChars(i) == IF i < 0 THEN <<"-">> \o Digits(0 - i) ELSE Digits(i)

RECURSIVE join(_)
\* Array.prototype.join(',') of an array of numbers
join(indices) ==
    IF Len(indices) = 0 THEN <<>>
    ELSE IF Len(indices) = 1 THEN NumberChars(indices[1])
    ELSE NumberChars(indices[1]) \o <<",">> \o join(Tail(indices))

\* indicesEquals comparing the two arrays by reference: `indices` is a fresh
\* array on every call, never the recorded one
indicesEqualsByReference(indices1, indices2) == FALSE

indicesEquals(indices1, indices2) == join(indices1) = join(indices2)

----------------------------------------------------------------------------
(* parseRawOption *)

RECURSIVE ParseMediaLastDefault(_, _, _, _)
\* ParseMedia with each unit without a query taking the place of the default
\* found before it
ParseMediaLastDefault(media, i, list, default) ==
    IF i > Len(media) THEN [mediaList |-> list, mediaDefault |-> default]
    ELSE LET singleMedia == media[i]
         IN  IF Truthy(singleMedia) /\ Truthy(Get(singleMedia, "option"))
             THEN IF Truthy(Get(singleMedia, "query"))
                  THEN ParseMediaLastDefault(media, i + 1,
                                             Append(list, singleMedia), default)
                  ELSE ParseMediaLastDefault(media, i + 1, list, singleMedia)
             ELSE ParseMediaLastDefault(media, i + 1, list, default)

\* The media units kept: mediaList in document order, and the first unit
\* without a query as mediaDefault (the callback of each(media, ...))
RECURSIVE ParseMedia(_, _, _, _)
ParseMedia(media, i, list, default) ==
    IF i > Len(media) THEN [mediaList |-> list, mediaDefault |-> default]
    ELSE LET singleMedia == media[i]
         IN  IF Truthy(singleMedia) /\ Truthy(Get(singleMedia, "option"))
             THEN IF Truthy(Get(singleMedia, "query"))
                  THEN ParseMedia(media, i + 1, Append(list, singleMedia), default)
                  ELSE IF ~Truthy(default)
                  THEN ParseMedia(media, i + 1, list, singleMedia)
                  ELSE ParseMedia(media, i + 1, list, default)
             ELSE ParseMedia(media, i + 1, list, default)

\* preProcess(option, isNew) for the preprocessors a caller may register:
\* one that only reads the fragment, one that writes a key into it, one that
\* injects a default on the first submission only
preProcess(func, option, isNew) ==
    CASE func = "stamp" /\ option.t = "obj" -> Put(option, "stamped", Num(1))
      [] func = "first" /\ option.t = "obj" /\ isNew -> Put(option, "first", Num(1))
      [] OTHER -> option

RECURSIVE Preprocessed(_, _, _, _)
\* The fragment after each(optionPreprocessorFuncs, ...) from the i-th on
Preprocessed(option, funcs, isNew, i) ==
    IF i > Len(funcs) THEN option
    ELSE Preprocessed(preProcess(funcs[i], option, isNew), funcs, isNew, i + 1)

\* A media unit after its option was preprocessed
PreprocessedUnit(unit, funcs, isNew) ==
    Put(unit, "option", Preprocessed(Get(unit, "option"), funcs, isNew, 1))

\* The calls preProcess(option, isNew), in the order they are made
PreprocessCalls(fragments, funcs, isNew) ==
    [n \in 1..(Len(fragments) * Len(funcs)) |->
        [option |-> Strip(fragments[((n - 1) \div Len(funcs)) + 1]),
         func |-> funcs[((n - 1) % Len(funcs)) + 1],
         isNew |-> isNew]]

\* BaseRejected in code that is not strict: the assignment to a property
\* of a primitive is dropped silently
BaseRejectedNever(baseOption) == FALSE

\* `baseOption.timeline = timelineOpt` throws a TypeError: the file is a
\* module, hence strict code, and baseOption is a primitive (a primitive
\* has no timeline, so the assignment is reached)
BaseRejected(baseOption) ==
    baseOption.t \in {"num", "str"} /\ ~Truthy(Get(baseOption, "timeline"))

\* WithTimeline that leaves the base without the descriptor
WithTimelineNever(baseOption, timelineOpt) == baseOption

\* `if (!baseOption.timeline) baseOption.timeline = timelineOpt` on a base
\* that is an object
WithTimeline(baseOption, timelineOpt) ==
    IF ~Truthy(Get(baseOption, "timeline")) /\ baseOption.t = "obj"
    THEN Put(baseOption, "timeline", timelineOpt) ELSE baseOption

\* The base parseRawOption arrives at before it sets its timeline and
\* preprocesses it
DerivedBase(rawOption) ==
    LET base0 == IF Truthy(Get(rawOption, "baseOption"))
                 THEN Get(rawOption, "baseOption") ELSE Null
        forTimeline == Truthy(Get(rawOption, "timeline"))
                            \/ Truthy(Get(rawOption, "options"))
        base1 == IF forTimeline /\ ~Truthy(base0) THEN Obj("in", NoKeys) ELSE base0
        base2 == IF Truthy(Get(rawOption, "media")) /\ ~Truthy(base1)
                 THEN Obj("in", NoKeys) ELSE base1
    IN  IF ~Truthy(base2) THEN rawOption ELSE base2

\* parseRawOption(rawOption, optionPreprocessorFuncs, isNew).  Reading
\* rawOption.timeline of null or undefined throws (threw |-> TRUE), and so
\* does writing the timeline of a primitive base.
parseRawOption(rawOption, funcs, isNew) ==
    IF rawOption = Null \/ BaseRejected(DerivedBase(rawOption))
    THEN [threw |-> TRUE, baseOption |-> Null, timelineOptions |-> <<>>,
          mediaDefault |-> Null, mediaList |-> <<>>, calls |-> <<>>]
    ELSE
    LET timelineOpt == Get(rawOption, "timeline")
        forTimeline == Truthy(timelineOpt) \/ Truthy(Get(rawOption, "options"))
        tlOptions == IF forTimeline /\ Truthy(Get(rawOption, "options"))
                     THEN Get(rawOption, "options").e ELSE <<>>
        forMedia == Truthy(Get(rawOption, "media"))
        units == IF forMedia
                 THEN ParseMedia(Get(rawOption, "media").e, 1, <<>>, Null)
                 ELSE [mediaList |-> <<>>, mediaDefault |-> Null]
        base3 == DerivedBase(rawOption)
        base4 == WithTimeline(base3, timelineOpt)
        fragments == <<base4>> \o tlOptions
                     \o [i \in 1..Len(units.mediaList) |->
                            Get(units.mediaList[i], "option")]
    IN  [threw |-> FALSE,
         baseOption |-> Preprocessed(base4, funcs, isNew, 1),
         timelineOptions |-> [i \in 1..Len(tlOptions) |->
                                Preprocessed(tlOptions[i], funcs, isNew, 1)],
         mediaDefault |-> units.mediaDefault,
         mediaList |-> [i \in 1..Len(units.mediaList) |->
                            PreprocessedUnit(units.mediaList[i], funcs, isNew)],
         calls |-> PreprocessCalls(fragments, funcs, isNew)]

----------------------------------------------------------------------------
(* OptionManager.  A handler is an operator from the manager's fields      *)
(* (self) and the arguments to the fields after the call and what the call *)
(* gave back.                                                              *)

\* The callback of setOption's zrUtil.each over the series
MarkSeries(series) ==
    IF Truthy(series) /\ Truthy(Get(series, "data"))
       /\ isTypedArray(Get(series, "data"))
    THEN Put(series, "data", setAsPrimitive(Get(series, "data")))
    ELSE series

\* The caller's document after setOption's first statement: the typed
\* arrays under series[i].data are marked primitive, in the caller's objects
MarkDocument(rawOption) ==
    IF ~Truthy(rawOption) THEN rawOption
    ELSE LET series == Get(rawOption, "series")
         IN  IF series.t = "arr"
             THEN Put(rawOption, "series",
                      [series EXCEPT !.e = [i \in 1..Len(series.e) |->
                                               MarkSeries(series.e[i])]])
             ELSE IF series = Null THEN rawOption
             ELSE Put(rawOption, "series", MarkSeries(series))

Backup(parsed) ==
    [baseOption |-> parsed.baseOption, timelineOptions |-> parsed.timelineOptions,
     mediaDefault |-> parsed.mediaDefault, mediaList |-> parsed.mediaList]

\* Ingested without the clone: the manager keeps the caller's objects
IngestedNoClone(rawOption) == MarkDocument(rawOption)

\* The document as the manager keeps it: the clone taken on ingestion
Ingested(rawOption) == clone(MarkDocument(rawOption), "in")

\* MergedBackup with the timeline options replaced whatever their length
MergedBackupReplacesAlways(oldOptionBackup, newParsedOption) ==
    [baseOption |-> mergeOption(oldOptionBackup.baseOption,
                                newParsedOption.baseOption),
     timelineOptions |-> newParsedOption.timelineOptions,
     mediaList |->
        IF Len(newParsedOption.mediaList) # 0
        THEN newParsedOption.mediaList ELSE oldOptionBackup.mediaList,
     mediaDefault |->
        IF Truthy(newParsedOption.mediaDefault)
        THEN newParsedOption.mediaDefault ELSE oldOptionBackup.mediaDefault]

\* MergedBackup with the default unit replaced together with the media list
MergedBackupDefaultWithList(oldOptionBackup, newParsedOption) ==
    [baseOption |-> mergeOption(oldOptionBackup.baseOption,
                                newParsedOption.baseOption),
     timelineOptions |->
        IF Len(newParsedOption.timelineOptions) # 0
        THEN newParsedOption.timelineOptions ELSE oldOptionBackup.timelineOptions,
     mediaList |->
        IF Len(newParsedOption.mediaList) # 0
        THEN newParsedOption.mediaList ELSE oldOptionBackup.mediaList,
     mediaDefault |->
        IF Len(newParsedOption.mediaList) # 0
        THEN newParsedOption.mediaDefault ELSE oldOptionBackup.mediaDefault]

\* oldOptionBackup after the merge-mode branch of setOption: the base is
\* merged in place, each of the three others is substituted when supplied
MergedBackup(oldOptionBackup, newParsedOption) ==
    [baseOption |-> mergeOption(oldOptionBackup.baseOption,
                                newParsedOption.baseOption),
     timelineOptions |->
        IF Len(newParsedOption.timelineOptions) # 0
        THEN newParsedOption.timelineOptions ELSE oldOptionBackup.timelineOptions,
     mediaList |->
        IF Len(newParsedOption.mediaList) # 0
        THEN newParsedOption.mediaList ELSE oldOptionBackup.mediaList,
     mediaDefault |->
        IF Truthy(newParsedOption.mediaDefault)
        THEN newParsedOption.mediaDefault ELSE oldOptionBackup.mediaDefault]

\* setOption assigning the (void) result of mergeOption to _newBaseOption
\* in merge mode
setOptionVoidBase(self, rawOption, funcs) ==
    LET oldOptionBackup == self.optionBackup
        newParsedOption == parseRawOption(Ingested(rawOption), funcs,
                                          oldOptionBackup = Null)
    IN  IF newParsedOption.threw
        THEN [self |-> self, threw |-> TRUE, calls |-> <<>>]
        ELSE
        [self |->
            IF oldOptionBackup # Null
            THEN [self EXCEPT
                    !.newBaseOption = Null,
                    !.optionBackup = MergedBackup(oldOptionBackup, newParsedOption)]
            ELSE [self EXCEPT
                    !.newBaseOption = newParsedOption.baseOption,
                    !.optionBackup = Backup(newParsedOption)],
         threw |-> FALSE, calls |-> newParsedOption.calls]

\* IsNew with every submission taken for the first
IsNewAlways(oldOptionBackup) == TRUE

\* `!oldOptionBackup`, the isNew that setOption passes to parseRawOption
IsNew(oldOptionBackup) == oldOptionBackup = Null

\* setOption(rawOption, optionPreprocessorFuncs)
setOption(self, rawOption, funcs) ==
    LET oldOptionBackup == self.optionBackup
        newParsedOption == parseRawOption(Ingested(rawOption), funcs,
                                          IsNew(oldOptionBackup))
    IN  IF newParsedOption.threw
        THEN [self |-> self, threw |-> TRUE, calls |-> <<>>]
        ELSE
        [self |->
            IF oldOptionBackup # Null
            THEN [self EXCEPT
                    !.newBaseOption = newParsedOption.baseOption,
                    !.optionBackup = MergedBackup(oldOptionBackup, newParsedOption)]
            ELSE [self EXCEPT
                    !.newBaseOption = newParsedOption.baseOption,
                    !.optionBackup = Backup(newParsedOption)],
         threw |-> FALSE, calls |-> newParsedOption.calls]

\* MountedBase giving the latest base in recreate mode too
MountedBaseLatest(self, isRecreate) == self.newBaseOption

\* MountedBase giving the merged backup base in both modes
MountedBaseMerged(self, isRecreate) == self.optionBackup.baseOption

\* The tree mountOption clones for its caller
MountedBase(self, isRecreate) ==
    IF isRecreate THEN self.optionBackup.baseOption ELSE self.newBaseOption

\* mountOption leaving the recorded selection as it is
MountedIndicesKept(self) == self.currentMediaIndices

\* `this._currentMediaIndices = []` of mountOption
MountedIndices(self) == <<>>

\* mountOption(isRecreate).  Without a backup, reading
\* optionBackup.timelineOptions throws before any field is written.
mountOption(self, isRecreate) ==
    LET backup == self.optionBackup
    IN  IF backup = Null
        THEN [self |-> self, threw |-> TRUE, ret |-> Null]
        ELSE [self |->
                [self EXCEPT
                    !.timelineOptions =
                        [i \in 1..Len(backup.timelineOptions) |->
                            clone(backup.timelineOptions[i], "in")],
                    !.mediaList =
                        [i \in 1..Len(backup.mediaList) |->
                            clone(backup.mediaList[i], "in")],
                    !.mediaDefault = clone(backup.mediaDefault, "in"),
                    !.currentMediaIndices = MountedIndices(self)],
              threw |-> FALSE,
              ret |-> clone(MountedBase(self, isRecreate), "out")]

\* getTimelineOption reading the layers of the backup, those of the latest
\* submission, in place of the mounted ones
getTimelineOptionFromBackup(self, hasTimelineModel, currentIndex) ==
    LET layers == IF self.optionBackup = Null THEN <<>>
                  ELSE self.optionBackup.timelineOptions
    IN  [self |-> self,
         ret |-> IF Len(layers) # 0 /\ hasTimelineModel
                    /\ currentIndex + 1 \in 1..Len(layers)
                 THEN clone(layers[currentIndex + 1], "out")
                 ELSE Null]

\* getTimelineOption giving the first layer whatever the index
getTimelineOptionFirstLayer(self, hasTimelineModel, currentIndex) ==
    [self |-> self,
     ret |-> IF Len(self.timelineOptions) # 0 /\ hasTimelineModel
             THEN clone(self.timelineOptions[1], "out")
             ELSE Null]

\* getTimelineOption(ecModel): hasTimelineModel tells whether
\* ecModel.getComponent('timeline') exists, currentIndex is what its
\* getCurrentIndex() gives (0-based)
getTimelineOption(self, hasTimelineModel, currentIndex) ==
    [self |-> self,
     ret |-> IF Len(self.timelineOptions) # 0 /\ hasTimelineModel
             THEN IF currentIndex + 1 \in 1..Len(self.timelineOptions)
                  THEN clone(self.timelineOptions[currentIndex + 1], "out")
                  ELSE Null
             ELSE Null]

RECURSIVE MatchingIndicesLatestFirst(_, _, _, _)
\* MatchingIndices with each index put before the ones found so far
MatchingIndicesLatestFirst(list, w, h, i) ==
    IF i > Len(list) THEN <<>>
    ELSE IF applyMediaQuery(Get(list[i], "query"), w, h)
    THEN MatchingIndicesLatestFirst(list, w, h, i + 1) \o <<i - 1>>
    ELSE MatchingIndicesLatestFirst(list, w, h, i + 1)

\* The indices pushed by the loop of getMediaOption (0-based, ascending)
RECURSIVE MatchingIndices(_, _, _, _)
MatchingIndices(list, w, h, i) ==
    IF i > Len(list) THEN <<>>
    ELSE IF applyMediaQuery(Get(list[i], "query"), w, h)
    THEN <<i - 1>> \o MatchingIndices(list, w, h, i + 1)
    ELSE MatchingIndices(list, w, h, i + 1)

\* ComputedIndices with the default unit selected whenever one is retained
ComputedIndicesDefaultAlways(self, w, h) ==
    MatchingIndices(self.mediaList, w, h, 1)
        \o (IF Truthy(self.mediaDefault) THEN <<-1>> ELSE <<>>)

\* `indices` as getMediaOption computes it before comparing
ComputedIndices(self, w, h) ==
    LET matching == MatchingIndices(self.mediaList, w, h, 1)
    IN  IF Len(matching) = 0 /\ Truthy(self.mediaDefault)
        THEN <<-1>> ELSE matching

\* Recorded with the new indices added to the recorded ones
RecordedAdded(indices, current) == current \o indices

\* What `this._currentMediaIndices = indices` records
Recorded(indices, current) == indices

\* getMediaOption that consumes the mounted units it has evaluated
getMediaOptionConsuming(self, w, h) ==
    [self |-> [self EXCEPT !.currentMediaIndices = ComputedIndices(self, w, h),
                           !.mediaList = <<>>],
     ret |-> Arr("out", <<>>)]

\* getMediaOption(ecModel) with this._api.getWidth() = w, getHeight() = h
getMediaOption(self, w, h) ==
    IF Len(self.mediaList) = 0 /\ ~Truthy(self.mediaDefault)
    THEN [self |-> self, ret |-> Arr("out", <<>>)]
    ELSE LET indices == ComputedIndices(self, w, h)
         IN  [self |-> [self EXCEPT !.currentMediaIndices =
                                    Recorded(indices, self.currentMediaIndices)],
              ret |->
                IF Len(indices) # 0
                   /\ ~indicesEquals(indices, self.currentMediaIndices)
                THEN Arr("out", [n \in 1..Len(indices) |->
                        clone(IF indices[n] = -1
                              THEN Get(self.mediaDefault, "option")
                              ELSE Get(self.mediaList[indices[n] + 1], "option"),
                              "out")])
                ELSE Arr("out", <<>>)]

----------------------------------------------------------------------------
(* The documents, viewports and indices the calls are drawn from *)

MaxSubmits == 2     \* documents accepted in one run
MaxDocVal == 2      \* scalar values of the documents: 1..MaxDocVal
MaxLayers == 2      \* timeline layers in one document
MaxDim == 2         \* viewport width and height, and query targets: up to MaxDim

\* An object built by the caller
D(f) == Obj("doc", f)

PlainDocs == {D([a |-> Num(i)]) : i \in 1..MaxDocVal} \cup {D([b |-> Num(1)])}

\* One series whose data is a typed array, one whose data is a plain array
SeriesDocs ==
    {D([series |-> Arr("doc", <<D([id |-> Str("x"),
                                    data |-> Typed("doc", FALSE, <<1, 2>>)])>>)]),
     D([series |-> Arr("doc", <<D([id |-> Str("x"),
                                    data |-> Arr("doc", <<Num(1), Num(2)>>)])>>)])}

\* n layers; layer i of n is {a: n, b: i}
Layers(n) == Arr("doc", [i \in 1..n |-> D([a |-> Num(n), b |-> Num(i)])])

TimelineDocs ==
    {D([baseOption |-> D([a |-> Num(1)]), options |-> Layers(n)]) : n \in 0..MaxLayers}
        \cup {D([a |-> Num(1), options |-> Layers(1)]),
              D([a |-> Num(1), timeline |-> D([c |-> Num(1)])])}

UnitWide == D([query |-> D([minWidth |-> Num(2)]), option |-> D([a |-> Num(1)])])
UnitLow == D([query |-> D([maxHeight |-> Num(1)]), option |-> D([b |-> Num(1)])])
UnitDefault(i) == D([option |-> D([c |-> Num(i)])])

MediaLists == {<<UnitWide, UnitLow>>, <<UnitDefault(2), UnitDefault(1)>>}

\* Documents with media units: with a baseOption, with timeline layers as
\* well, and with neither
MediaDocs ==
    {D([baseOption |-> D([a |-> Num(1)]), media |-> Arr("doc", list)]) :
        list \in MediaLists}
        \cup {D([baseOption |-> D([a |-> Num(1)]), options |-> Layers(1),
                 media |-> Arr("doc", <<UnitWide, UnitDefault(1)>>)]),
              D([a |-> Num(1), media |-> Arr("doc", <<UnitLow>>)])}

\* Roots that are not objects: null and a number
InvalidDocs == {Null, Num(1)}

Docs == PlainDocs \cup SeriesDocs \cup TimelineDocs \cup MediaDocs \cup InvalidDocs

\* The preprocessors of the caller of the manager runs, in their order
PreprocessorFuncs == <<"check", "first">>

\* Widths and heights of the viewport: on both sides of the thresholds of
\* UnitWide and UnitLow
Dims == {1, 2}
TimelineIndices == 0..MaxLayers

----------------------------------------------------------------------------
(* The manager as a state machine *)

Self ==
    [optionBackup |-> optionBackup, newBaseOption |-> newBaseOption,
     timelineOptions |-> timelineOptions, mediaList |-> mediaList,
     mediaDefault |-> mediaDefault, currentMediaIndices |-> currentMediaIndices]

\* The fields take the values of self
Become(self) ==
    /\ optionBackup' = self.optionBackup
    /\ newBaseOption' = self.newBaseOption
    /\ timelineOptions' = self.timelineOptions
    /\ mediaList' = self.mediaList
    /\ mediaDefault' = self.mediaDefault
    /\ currentMediaIndices' = self.currentMediaIndices

\* The base layer parsed from a document alone
ParsedBase(rawOption, isNew) ==
    parseRawOption(Ingested(rawOption), optionPreprocessorFuncs, isNew).baseOption

InitManager ==
    /\ optionBackup = Null /\ newBaseOption = Null
    /\ timelineOptions = <<>> /\ mediaList = <<>> /\ mediaDefault = Null
    /\ currentMediaIndices = <<>>
    /\ op = [name |-> "new"] /\ ret = Null
    /\ nSubmits = 0 /\ firstBase = Null /\ cumBase = Null /\ lastDoc = Null
    /\ preCalls = <<>> /\ lastSel = [known |-> FALSE, indices |-> <<>>]
    /\ handed = {}

IdleMerge ==
    oldOption = Null /\ newOption = Null /\ merged = Null /\ mst = "idle"
IdleQuery ==
    query = Null /\ ecWidth = 0 /\ ecHeight = 0 /\ applicable = FALSE /\ qst = "idle"
IdleHeat ==
    /\ pieceList = <<>> /\ selected = <<>> /\ lastIndex = 0
    /\ val = Null /\ isInRange = FALSE /\ hst = "idle"

Init ==
    /\ InitManager /\ IdleMerge /\ IdleQuery /\ IdleHeat
    /\ optionPreprocessorFuncs = PreprocessorFuncs

SetOption(rawOption) ==
    /\ nSubmits < MaxSubmits
    /\ LET r == setOption(Self, rawOption, optionPreprocessorFuncs)
           isNew == optionBackup = Null
       IN  /\ Become(r.self)
           /\ op' = [name |-> "setOption", threw |-> r.threw,
                     object |-> rawOption.t \in {"obj", "arr", "typed"}]
           /\ ret' = Null
           /\ nSubmits' = IF r.threw THEN nSubmits ELSE nSubmits + 1
           /\ preCalls' = r.calls
           /\ handed' = handed \cup {"doc"}
           /\ IF r.threw
              THEN UNCHANGED <<firstBase, cumBase, lastDoc>>
              ELSE /\ lastDoc' = Ingested(rawOption)
                   /\ firstBase' = IF isNew THEN ParsedBase(rawOption, TRUE)
                                   ELSE firstBase
                   /\ cumBase' = IF isNew THEN ParsedBase(rawOption, TRUE)
                                 ELSE mergeOption(cumBase, ParsedBase(rawOption, FALSE))
    /\ UNCHANGED <<lastSel, optionPreprocessorFuncs, mergeVars, queryVars, heatVars>>

MountOption(isRecreate) ==
    /\ LET r == mountOption(Self, isRecreate)
       IN  /\ Become(r.self)
           /\ op' = [name |-> "mountOption", isRecreate |-> isRecreate,
                     threw |-> r.threw, prior |-> currentMediaIndices]
           /\ ret' = r.ret
           /\ handed' = handed \cup Owners(r.ret)
           /\ lastSel' = IF r.threw THEN lastSel
                         ELSE [known |-> FALSE, indices |-> <<>>]
    /\ UNCHANGED <<nSubmits, firstBase, cumBase, lastDoc, preCalls,
                   optionPreprocessorFuncs, mergeVars, queryVars, heatVars>>

GetTimelineOption(hasTimelineModel, currentIndex) ==
    /\ LET r == getTimelineOption(Self, hasTimelineModel, currentIndex)
       IN  /\ Become(r.self)
           /\ op' = [name |-> "getTimelineOption",
                     hasTimelineModel |-> hasTimelineModel,
                     currentIndex |-> currentIndex]
           /\ ret' = r.ret
           /\ handed' = handed \cup Owners(r.ret)
    /\ UNCHANGED <<nSubmits, firstBase, cumBase, lastDoc, preCalls, lastSel,
                   optionPreprocessorFuncs, mergeVars, queryVars, heatVars>>

GetMediaOption(w, h) ==
    /\ LET r == getMediaOption(Self, w, h)
       IN  /\ Become(r.self)
           /\ op' = [name |-> "getMediaOption",
                     again |-> /\ op.name = "mountOption" /\ ~op.threw
                               /\ op.prior # <<>>
                               /\ op.prior = ComputedIndices(Self, w, h)]
           /\ ret' = r.ret
           /\ handed' = handed \cup Owners(r.ret)
           /\ lastSel' = [known |-> TRUE, indices |-> ComputedIndices(Self, w, h)]
    /\ UNCHANGED <<nSubmits, firstBase, cumBase, lastDoc, preCalls,
                   optionPreprocessorFuncs, mergeVars, queryVars, heatVars>>

RECURSIVE Poke(_, _)
\* A tree after the caller wrote to every object of it that it holds: a
\* new key in a plain object, zeroes in a typed array
Poke(v, owns) ==
    CASE v.t = "obj" ->
            LET f == [k \in DOMAIN v.f |-> Poke(v.f[k], owns)]
            IN  [v EXCEPT !.f = IF v.own \in owns
                                THEN ("poked" :> Num(0)) @@ f ELSE f]
      [] v.t = "arr" -> [v EXCEPT !.e = [i \in 1..Len(v.e) |-> Poke(v.e[i], owns)]]
      [] v.t = "typed" ->
            IF v.own \in owns THEN [v EXCEPT !.e = [i \in 1..Len(v.e) |-> 0]]
            ELSE v
      [] OTHER -> v
PokeSeq(s, owns) == [i \in 1..Len(s) |-> Poke(s[i], owns)]
PokeBackup(b, owns) ==
    IF b = Null THEN b
    ELSE [baseOption |-> Poke(b.baseOption, owns),
          timelineOptions |-> PokeSeq(b.timelineOptions, owns),
          mediaDefault |-> Poke(b.mediaDefault, owns),
          mediaList |-> PokeSeq(b.mediaList, owns)]

\* The caller writes to the objects it holds: those of its documents and
\* those of the trees returned to it.  The manager is not called.
CallerMutate ==
    /\ handed # {}
    /\ optionBackup' = PokeBackup(optionBackup, handed)
    /\ newBaseOption' = Poke(newBaseOption, handed)
    /\ timelineOptions' = PokeSeq(timelineOptions, handed)
    /\ mediaList' = PokeSeq(mediaList, handed)
    /\ mediaDefault' = Poke(mediaDefault, handed)
    /\ firstBase' = Poke(firstBase, handed)
    /\ cumBase' = Poke(cumBase, handed)
    /\ lastDoc' = Poke(lastDoc, handed)
    /\ op' = [name |-> "mutate"]
    /\ ret' = Null
    /\ UNCHANGED <<currentMediaIndices, nSubmits, preCalls, lastSel, handed,
                   optionPreprocessorFuncs, mergeVars, queryVars, heatVars>>

Next ==
    \/ \E rawOption \in Docs : SetOption(rawOption)
    \/ \E isRecreate \in BOOLEAN : MountOption(isRecreate)
    \/ \E currentIndex \in TimelineIndices : GetTimelineOption(TRUE, currentIndex)
    \/ GetTimelineOption(FALSE, 0)
    \/ \E w \in Dims, h \in Dims : GetMediaOption(w, h)
    \/ CallerMutate

Spec == Init /\ [][Next]_vars

----------------------------------------------------------------------------
(* mergeOption on drawn trees *)

MaxVal == 4         \* scalar values of the merged trees: 1..MaxVal
MaxItems == 2       \* items in one collection

\* Trees of scalars: each of a, b, c is missing, null or a number
ScalarValues == {Null} \cup {Num(i) : i \in 1..MaxVal}
ScalarTrees ==
    UNION {{Obj("in", f) : f \in [keys -> ScalarValues]} :
                keys \in SUBSET {"a", "b", "c"}}

SeqsUpTo(S, n) == UNION {[1..m -> S] : m \in 0..n}

\* An existing item of a collection: at position i it holds v = keep = i,
\* with or without an id
ExistingKinds == {"x", "y", "z", ""}
ExistingItem(kind, i) ==
    IF kind = "" THEN Obj("in", [v |-> Num(i), keep |-> Num(i)])
    ELSE Obj("in", [id |-> Str(kind), v |-> Num(i), keep |-> Num(i)])
\* An incoming item: at position i it holds v = MaxItems + i, and an id, an
\* index reference or neither
IncomingKinds ==
    {[k |-> "id", id |-> s] : s \in {"x", "y", "z"}}
        \cup {[k |-> "index", index |-> j] : j \in 0..(MaxItems - 1)}
        \cup {[k |-> "none"]}
IncomingItem(kind, i) ==
    CASE kind.k = "id" -> Obj("in", [id |-> Str(kind.id), v |-> Num(MaxItems + i)])
      [] kind.k = "index" -> Obj("in", [index |-> Num(kind.index), v |-> Num(MaxItems + i)])
      [] OTHER -> Obj("in", [v |-> Num(MaxItems + i)])

CollectionTargets ==
    {Obj("in", NoKeys)} \cup
    {Obj("in", [series |-> Arr("in", [i \in 1..Len(ks) |-> ExistingItem(ks[i], i)])]) :
        ks \in SeqsUpTo(ExistingKinds, MaxItems)}
\* The incoming collection is an array, or one bare item
CollectionSources ==
    {Obj("in", [series |-> Arr("in", [i \in 1..Len(ks) |-> IncomingItem(ks[i], i)])]) :
        ks \in SeqsUpTo(IncomingKinds, MaxItems)}
    \cup {Obj("in", [series |-> IncomingItem(kind, 1)]) : kind \in IncomingKinds}

\* Arrays of primitives: those of the old option hold 1 and 2, those of the
\* new option 3 and 4
OldArrays == {Arr("in", e) : e \in SeqsUpTo({Num(1), Num(2)}, MaxItems)}
NewArrays == {Arr("in", e) : e \in SeqsUpTo({Num(3), Num(4)}, MaxItems)}

\* Trees with `color`, a key of no component: missing, null, a number, a
\* plain object or an array of primitives; and with or without a `series`,
\* which in the new option is null
Nested(i) == Obj("in", [a |-> Num(i)])
WithColor(values, seriesValues) ==
    {Obj("in", [k \in keys |-> IF k = "color" THEN v ELSE sv]) :
        keys \in SUBSET {"color", "series"}, v \in values, sv \in seriesValues}
ColorTargets ==
    WithColor({Null, Num(1), Nested(1)} \cup OldArrays,
              {Arr("in", <<ExistingItem("x", 1)>>)})
ColorSources ==
    WithColor({Null, Num(3), Nested(3)} \cup NewArrays, {Null})
\* An array is not merged into a plain object, nor a plain object into an
\* array
ColorInputs ==
    {input \in ColorTargets \X ColorSources :
        LET old == Get(input[1], "color")
            new == Get(input[2], "color")
        IN  ~(old.t = "obj" /\ new.t = "arr") /\ ~(old.t = "arr" /\ new.t = "obj")}

MergeInputs ==
    (ScalarTrees \X ScalarTrees) \cup (CollectionTargets \X CollectionSources)
        \cup ColorInputs

InitMerge ==
    /\ InitManager /\ IdleQuery /\ IdleHeat
    /\ optionPreprocessorFuncs = <<>>
    /\ \E input \in MergeInputs : oldOption = input[1] /\ newOption = input[2]
    /\ merged = Null /\ mst = "ready"

MergeStep ==
    /\ mst = "ready"
    /\ merged' = mergeOption(oldOption, newOption)
    /\ mst' = "done"
    /\ UNCHANGED <<oldOption, newOption, mgrVars, queryVars, heatVars>>

NextMerge == MergeStep

SpecMerge == InitMerge /\ [][NextMerge]_vars

----------------------------------------------------------------------------
(* applyMediaQuery on drawn queries and viewports *)

MaxConstraints == 2     \* constraints in one query

AttrNames == DOMAIN AttrChars
\* Queries of up to MaxConstraints constraints with targets 1..MaxDim
Queries ==
    UNION {{D(f) : f \in [attrs -> {Num(i) : i \in 1..MaxDim}]} :
                attrs \in {A \in SUBSET AttrNames : Cardinality(A) <= MaxConstraints}}
\* A viewport may be empty in either direction
QueryDims == 0..MaxDim

InitQuery ==
    /\ InitManager /\ IdleMerge /\ IdleHeat
    /\ optionPreprocessorFuncs = <<>>
    /\ query \in Queries /\ ecWidth \in QueryDims /\ ecHeight \in QueryDims
    /\ applicable = FALSE /\ qst = "ready"

QueryStep ==
    /\ qst = "ready"
    /\ applicable' = applyMediaQuery(query, ecWidth, ecHeight)
    /\ qst' = "done"
    /\ UNCHANGED <<query, ecWidth, ecHeight, mgrVars, mergeVars, heatVars>>

NextQuery == QueryStep

SpecQuery == InitQuery /\ [][NextQuery]_vars

----------------------------------------------------------------------------
(* Resubmission: scalar-only documents under every list of preprocessors *)

\* Scalar-only documents: each of a, b is missing or a number
RemergeDocs ==
    UNION {{D(f) : f \in [keys -> {Num(i) : i \in 1..MaxDocVal}]} :
                keys \in SUBSET {"a", "b"}}

\* The lists of preprocessors a caller may pass
FuncLists ==
    {<<>>, <<"check">>, <<"stamp">>, <<"first">>, <<"check", "first">>,
     <<"stamp", "check">>}

InitRemerge ==
    /\ InitManager /\ IdleMerge /\ IdleQuery /\ IdleHeat
    /\ optionPreprocessorFuncs \in FuncLists

NextRemerge ==
    \/ \E rawOption \in RemergeDocs : SetOption(rawOption)
    \/ MountOption(FALSE)

SpecRemerge == InitRemerge /\ [][NextRemerge]_vars

----------------------------------------------------------------------------------------------------------------------------------------------------
(* Documents with a timeline descriptor at the root *)

\* Each document has or has not a descriptor {c: i} at its root, a
\* baseOption, a descriptor {c: 0} in that baseOption, and timeline layers
LegacyDocs ==
    {D([k \in keys |->
            CASE k = "timeline" -> D([c |-> Num(i)])
              [] k = "baseOption" -> IF own THEN D([a |-> Num(1),
                                                   timeline |-> D([c |-> Num(0)])])
                                    ELSE D([a |-> Num(1)])
              [] k = "options" -> Layers(1)
              [] OTHER -> Num(1)]) :
        keys \in {ks \cup {"a"} : ks \in SUBSET {"timeline", "baseOption", "options"}},
        i \in 1..MaxDocVal, own \in BOOLEAN}

NextLegacy ==
    \/ \E rawOption \in LegacyDocs : SetOption(rawOption)
    \/ \E isRecreate \in BOOLEAN : MountOption(isRecreate)

SpecLegacy == Init /\ [][NextLegacy]_vars

-----------------------------------------------------------------------------
(* getIsInPiecewiseRange (HeatmapView) *)

MaxPieces == 2      \* pieces in one list
MaxCoord == 2       \* interval ends, data extents and values: 0..MaxCoord

\* (x - dataExtent[0]) / dataSpan as a number of the language: a ratio, or
\* for a span of zero NaN or an infinity
Normalized(x, dataExtent) ==
    LET dataSpan == dataExtent[2] - dataExtent[1]
        a == x - dataExtent[1]
    IN  IF dataSpan # 0 THEN Ratio(a, dataSpan)
        ELSE IF a = 0 THEN [k |-> "nan"]
        ELSE IF a > 0 THEN [k |-> "inf"] ELSE [k |-> "ninf"]

\* x <= y on these numbers; the denominators of the ratios are positive
LessOrEqual(x, y) ==
    CASE x.k = "nan" \/ y.k = "nan" -> FALSE
      [] x.k = "ninf" \/ y.k = "inf" -> TRUE
      [] x.k = "inf" \/ y.k = "ninf" -> FALSE
      [] OTHER -> x.num * y.den <= y.num * x.den

\* The pieceList that getIsInPiecewiseRange maps the pieces to
NormalizedPieces(pieces, dataExtent) ==
    [i \in 1..Len(pieces) |->
        [interval |-> <<Normalized(pieces[i].interval[1], dataExtent),
                        Normalized(pieces[i].interval[2], dataExtent)>>]]

\* `interval[0] <= val && val <= interval[1]` for the piece of index i
\* (0-based)
Within(list, i, v) ==
    LET interval == list[i + 1].interval
    IN  LessOrEqual(interval[1], v) /\ LessOrEqual(v, interval[2])

\* The index at which the two loops of the returned function stop, having
\* started from `from`: that of the first piece at or after `from` that
\* holds v, else of the nearest piece before `from` that holds v, else -1
FoundIndex(list, from, v) ==
    LET len == Len(list)
        forward == {i \in from..(len - 1) : Within(list, i, v)}
        backward == {i \in 0..(from - 1) : Within(list, i, v)}
    IN  IF forward # {} THEN CHOOSE i \in forward : \A k \in forward : i <= k
        ELSE IF backward # {}
        THEN CHOOSE i \in backward : \A k \in backward : i >= k
        ELSE -1

\* One call of the returned function: the index it remembers afterwards and
\* what it returns
IsInPiecewiseRange(list, sel, last, v) ==
    LET i == FoundIndex(list, last, v)
    IN  [lastIndex |-> IF i >= 0 THEN i ELSE last,
         ret |-> i >= 0 /\ i < Len(list) /\ sel[i + 1]]

\* Lists of pieces with ends in 0..MaxCoord, in any order and overlapping or
\* not
PieceLists ==
    LET Intervals == {<<lo, hi>> : lo \in 0..MaxCoord, hi \in 0..MaxCoord}
    IN  UNION {[1..n -> {[interval |-> iv] :
                            iv \in {x \in Intervals : x[1] <= x[2]}}] :
                    n \in 0..MaxPieces}

InitHeat ==
    /\ InitManager /\ IdleMerge /\ IdleQuery
    /\ optionPreprocessorFuncs = <<>>
    /\ \E pieces \in PieceLists,
          dataExtent \in {<<0, hi>> : hi \in 0..MaxCoord} :
            /\ pieceList = NormalizedPieces(pieces, dataExtent)
            /\ selected \in [1..Len(pieces) -> BOOLEAN]
    /\ lastIndex = 0 /\ val = Null /\ isInRange = FALSE /\ hst = "made"

\* isInRange(v)
HeatCall(v) ==
    /\ hst \in {"made", "called"}
    /\ LET r == IsInPiecewiseRange(pieceList, selected, lastIndex, v)
       IN  /\ lastIndex' = r.lastIndex
           /\ isInRange' = r.ret
    /\ val' = v /\ hst' = "called"
    /\ UNCHANGED <<pieceList, selected, mgrVars, mergeVars, queryVars>>

\* The function is called with the halves from 0 to 1
NextHeat == \E v \in {Ratio(n, 2) : n \in 0..2} : HeatCall(v)

SpecHeat == InitHeat /\ [][NextHeat]_vars

-----
(* Properties of mergeOption (SpecMerge) *)

IsScalarTree(v) == v.t = "obj" /\ \A k \in DOMAIN v.f : v.f[k] \in ScalarValues
ScalarCase == mst = "done" /\ IsScalarTree(oldOption) /\ IsScalarTree(newOption)
CollectionCase == mst = "done" /\ Get(newOption, "series") # Null

\* A tree of scalars written as its keys
Plain(f) == [t |-> "obj", f |-> f]

\* C7: merging a source base into a target base yields, for every scalar
\* key, the source's value when the source holds a non-null value for the
\* key and the target's value otherwise; every key of the target and every
\* key the source holds a value for is a key of the result, and no other.
C7_MergeOnScalars ==
    ScalarCase =>
        /\ \A k \in {"a", "b", "c"} :
                Get(merged, k) = IF Get(newOption, k) # Null
                                 THEN Get(newOption, k) ELSE Get(oldOption, k)
        /\ DOMAIN merged.f =
                DOMAIN oldOption.f
                    \cup {k \in DOMAIN newOption.f : newOption.f[k] # Null}

\* {a:1,b:2} merged with {b:3,c:4} gave {a:1,b:3,c:4}
C7_Witness ==
    /\ ScalarCase
    /\ Strip(oldOption) = Plain([a |-> Num(1), b |-> Num(2)])
    /\ Strip(newOption) = Plain([b |-> Num(3), c |-> Num(4)])
    /\ Strip(merged) = Plain([a |-> Num(1), b |-> Num(3), c |-> Num(4)])

\* The collections of a collection case
Existing == normalizeToArray(Get(oldOption, "series"))
Incoming == normalizeToArray(Get(newOption, "series"))
Pairing == mappingToExists(Existing, Incoming)
Kept == Get(merged, "series").e

IncomingPosition(item) == Get(item, "v").n - MaxItems

\* C9: every incoming item without an existing counterpart is adopted as a
\* new entry, unchanged, after all the entries that stem from existing
\* items, and the new entries stand in incoming order; the other incoming
\* items are each paired with one existing item.
C9_NewItemsAppended ==
    CollectionCase =>
        LET nExist == Len(Existing)
            paired == {j \in 1..nExist : Kept[j] # Existing[j]}
        IN  /\ Len(Kept) >= nExist
            /\ Len(Kept) - nExist = Len(Incoming) - Cardinality(paired)
            /\ \A j \in (nExist + 1)..Len(Kept) :
                    /\ IncomingPosition(Kept[j]) \in 1..Len(Incoming)
                    /\ Kept[j] = Incoming[IncomingPosition(Kept[j])]
            /\ \A j, k \in (nExist + 1)..Len(Kept) :
                    j < k => IncomingPosition(Kept[j]) < IncomingPosition(Kept[k])

\* [{id:x,..}] merged with [{id:x,v:3},{id:z,v:4}] gave [{id:x,v:3,..},{id:z,v:4}]
C9_Witness ==
    /\ CollectionCase
    /\ StripSeq(Existing) = <<Strip(ExistingItem("x", 1))>>
    /\ StripSeq(Incoming) = <<Plain([id |-> Str("x"), v |-> Num(MaxItems + 1)]),
                              Plain([id |-> Str("z"), v |-> Num(MaxItems + 2)])>>
    /\ StripSeq(Kept) = <<Plain([id |-> Str("x"), v |-> Num(MaxItems + 1), keep |-> Num(1)]),
                          Plain([id |-> Str("z"), v |-> Num(MaxItems + 2)])>>

-----------------------------------------------------------------------\* C22: for every top-level key whose value in the new option is null or
\* missing, mergeOption leaves the key of the old option as it was: with
\* the value it had, or missing if it was missing.
C22_NullIsNoOp ==
    mst = "done" =>
        \A key \in DOMAIN oldOption.f \cup DOMAIN newOption.f :
            Get(newOption, key) = Null =>
                /\ key \in DOMAIN merged.f <=> key \in DOMAIN oldOption.f
                /\ key \in DOMAIN oldOption.f => merged.f[key] = oldOption.f[key]

\* A null `series` and a null `color` were merged into an option that holds
\* a series and an array of colors, and both are as they were
C22_Witness ==
    /\ mst = "done"
    /\ "series" \in DOMAIN newOption.f /\ newOption.f["series"] = Null
    /\ "color" \in DOMAIN newOption.f /\ newOption.f["color"] = Null
    /\ Get(oldOption, "series").t = "arr" /\ Get(oldOption, "color").t = "arr"
    /\ merged = oldOption

\* C23: when the new option holds a number or an array of primitives under
\* `color`, a key of no component, mergeOption makes it the value of the
\* key as a whole: the merged value is the incoming one, and no element of
\* a longer array of the old option remains.
C23_WholesaleOverwrite ==
    (mst = "done" /\ Get(newOption, "color").t \in {"num", "arr"}) =>
        Strip(merged.f["color"]) = Strip(newOption.f["color"])

-----
(* Properties of applyMediaQuery (SpecQuery) *)

\* C4: a constraint whose attribute carries no min/max prefix matches only
\* when the realized metric equals the target: the query {height: t} does
\* not match a viewport whose height differs from t.
C4_ExactMatch ==
    (qst = "done" /\ "height" \in DOMAIN query.f
        /\ ecHeight # query.f["height"].n) => ~applicable

\* The grammar (min|max)?(width|height|aspectratio) on the attribute names
\* drawn: the operator and the metric of a name that fits it
Grammar ==
    [minWidth |-> [operator |-> "min", metric |-> "width"],
     maxWidth |-> [operator |-> "max", metric |-> "width"],
     minHeight |-> [operator |-> "min", metric |-> "height"],
     maxHeight |-> [operator |-> "max", metric |-> "height"],
     minAspectRatio |-> [operator |-> "min", metric |-> "aspectratio"],
     maxAspectRatio |-> [operator |-> "max", metric |-> "aspectratio"],
     width |-> [operator |-> "", metric |-> "width"],
     height |-> [operator |-> "", metric |-> "height"],
     aspectratio |-> [operator |-> "", metric |-> "aspectratio"]]
WellFormed == DOMAIN Grammar

\* A query without the constraints whose names do not fit the grammar
WellFormedPart(q) ==
    [q EXCEPT !.f = [attr \in DOMAIN q.f \cap WellFormed |-> q.f[attr]]]

\* A well-formed constraint holds on the viewport w x h: the realized
\* metric is num/den; x/0 is Infinity for x > 0 and 0/0 is no number
Holds(attr, target, w, h) ==
    LET metric == Grammar[attr].metric
        num == IF metric = "height" THEN h ELSE w
        den == IF metric = "aspectratio" THEN h ELSE 1
    IN  CASE Grammar[attr].operator = "min" ->
                IF den = 0 THEN num > 0 ELSE num >= target * den
          [] Grammar[attr].operator = "max" -> den # 0 /\ num <= target * den
          [] OTHER -> den # 0 /\ num = target * den

\* C12: a constraint whose attribute does not fit the grammar
\* (min|max)?(width|height|aspectratio) never changes the match result:
\* the query matches iff the query without such constraints does.
C12_MalformedIgnored ==
    qst = "done" =>
        applicable = applyMediaQuery(WellFormedPart(query), ecWidth, ecHeight)

\* C13: a query matches iff every constraint that fits the grammar holds:
\* min means realized >= target, max means realized <= target, no prefix
\* means realized = target, and aspectratio is width / height; a query with
\* no such constraint matches.
C13_PredicateSemantics ==
    qst = "done" =>
        (applicable <=>
            \A attr \in DOMAIN query.f \cap WellFormed :
                Holds(attr, query.f[attr].n, ecWidth, ecHeight))

----------------------------------------------------------------------------
(* Properties of the manager (Spec) *)

\* mountOption(isRecreate) has just returned
Mounted(isRecreate) ==
    op.name = "mountOption" /\ ~op.threw /\ op.isRecreate = isRecreate

\* The base layer parsed from the latest accepted document alone
LatestBase ==
    parseRawOption(lastDoc, optionPreprocessorFuncs, nSubmits = 1).baseOption

\* The latest accepted submission was made in merge mode: it was not the
\* first one
MergeMode == nSubmits >= 2

SelectedFragments(indices) ==
    [n \in 1..Len(indices) |->
        Strip(IF indices[n] = -1 THEN Get(mediaDefault, "option")
              ELSE Get(mediaList[indices[n] + 1], "option"))]

\* C3: a getMediaOption call that computes the selection the previous call
\* computed, with no mountOption in between, returns an empty result; a call
\* that computes a different, non-empty selection returns the fragments of
\* that selection, in its order.
C3_MediaSelectionStability ==
    [][(op'.name = "getMediaOption" /\ lastSel.known) =>
            IF lastSel'.indices = lastSel.indices
            THEN ret'.e = <<>>
            ELSE lastSel'.indices # <<>> =>
                    StripSeq(ret'.e) = SelectedFragments(lastSel'.indices)]_vars

\* A call computed a non-empty selection and returned nothing: the selection
\* of the call before
C3_Witness ==
    /\ op.name = "getMediaOption"
    /\ lastSel.indices # <<>>
    /\ currentMediaIndices = lastSel.indices
    /\ ret.e = <<>>

\* The `options` of a document as the manager takes them: a sequence of
\* layers, each preprocessed as one of a submission in merge mode
SubmittedOptions(doc) ==
    LET layers == IF Get(doc, "options").t = "arr"
                  THEN Get(doc, "options").e ELSE <<>>
    IN  [i \in 1..Len(layers) |->
            Preprocessed(layers[i], optionPreprocessorFuncs, FALSE, 1)]

\* C5: on a manager that holds a backup, a submission whose `options` is a
\* non-empty sequence makes the retained timeline options that sequence,
\* whatever the old length; a submission whose `options` is empty or absent
\* leaves the retained timeline options as they were.
C5_TimelineReplacement ==
    [][(op'.name = "setOption" /\ ~op'.threw /\ optionBackup # Null) =>
            IF Len(SubmittedOptions(lastDoc')) # 0
            THEN StripSeq(optionBackup'.timelineOptions)
                    = StripSeq(SubmittedOptions(lastDoc'))
            ELSE optionBackup'.timelineOptions = optionBackup.timelineOptions]_vars

\* A submission of one layer replaced the two layers that were mounted
\* before it
C5_Witness ==
    /\ op.name = "setOption" /\ ~op.threw /\ MergeMode
    /\ Len(timelineOptions) = 2
    /\ Len(SubmittedOptions(lastDoc)) = 1
    /\ StripSeq(optionBackup.timelineOptions) = StripSeq(SubmittedOptions(lastDoc))

\* A manager as constructed
Fresh ==
    [optionBackup |-> Null, newBaseOption |-> Null, timelineOptions |-> <<>>,
     mediaList |-> <<>>, mediaDefault |-> Null, currentMediaIndices |-> <<>>]

\* What setOption(doc); mountOption(false) returns on a manager as constructed
OnceResult(doc) ==
    mountOption(setOption(Fresh, doc, optionPreprocessorFuncs).self, FALSE).ret

ScalarOnly(doc) ==
    doc.t = "obj" /\ \A k \in DOMAIN doc.f : doc.f[k].t \in {"null", "num", "str"}

\* The first submission and the latest one, made in merge mode, are the
\* same scalar-only document
Resubmitted ==
    /\ MergeMode /\ ScalarOnly(lastDoc)
    /\ Strip(firstBase)
            = Strip(parseRawOption(lastDoc, optionPreprocessorFuncs, TRUE).baseOption)

\* The preprocessors passed do to a fragment what they do whatever isNew is
FlagBlind ==
    \A i \in 1..Len(optionPreprocessorFuncs), doc \in RemergeDocs :
        preProcess(optionPreprocessorFuncs[i], doc, TRUE)
            = preProcess(optionPreprocessorFuncs[i], doc, FALSE)

RECURSIVE Mask(_)
\* A tree with the elements of its primitive-marked typed arrays left out
Mask(v) ==
    CASE v.t = "obj" -> [v EXCEPT !.f = [k \in DOMAIN v.f |-> Mask(v.f[k])]]
      [] v.t = "arr" -> [v EXCEPT !.e = [i \in 1..Len(v.e) |-> Mask(v.e[i])]]
      [] v.t = "typed" -> IF v.prim THEN [v EXCEPT !.e = <<>>] ELSE v
      [] OTHER -> v
MaskSeq(s) == [i \in 1..Len(s) |-> Mask(s[i])]
MaskSelf(self) ==
    [optionBackup |->
        IF self.optionBackup = Null THEN Null
        ELSE [baseOption |-> Mask(self.optionBackup.baseOption),
              timelineOptions |-> MaskSeq(self.optionBackup.timelineOptions),
              mediaDefault |-> Mask(self.optionBackup.mediaDefault),
              mediaList |-> MaskSeq(self.optionBackup.mediaList)],
     newBaseOption |-> Mask(self.newBaseOption),
     timelineOptions |-> MaskSeq(self.timelineOptions),
     mediaList |-> MaskSeq(self.mediaList),
     mediaDefault |-> Mask(self.mediaDefault),
     currentMediaIndices |-> self.currentMediaIndices]

C11_InvalidDocumentRejected ==
    [][op'.name = "setOption" =>
          /\ (~op'.object => op'.threw)
          /\ (op'.threw => Self' = Self)]_vars

\* A root that is not an object was submitted to a manager that holds a
\* backup and a mounted base, and was rejected
C11_Witness ==
    /\ op.name = "setOption" /\ op.threw /\ ~op.object
    /\ optionBackup # Null /\ newBaseOption # Null


\* C14: after a mountOption, the first getMediaOption that computes a
\* non-empty selection (no call since the mountOption, or the last one
\* computed an empty selection) returns the fragments of that selection,
\* whatever selection was recorded when mountOption was called.
C14_SelectionReturnedAfterMount ==
    [][(op'.name = "getMediaOption"
            /\ (~lastSel.known \/ lastSel.indices = <<>>)
            /\ lastSel'.indices # <<>>) =>
          StripSeq(ret'.e) = SelectedFragments(lastSel'.indices)]_vars

\* The selection recorded when mountOption was called was computed again by
\* the call that followed it, and its fragments were returned
C14_Witness ==
    /\ op.name = "getMediaOption" /\ op.again /\ lastSel.indices # <<>>
    /\ StripSeq(ret.e) = SelectedFragments(lastSel.indices)


\* The positions (1-based) of the mounted predicated units whose query
\* holds of a w x h viewport
Matches(w, h) ==
    {i \in 1..Len(mediaList) :
        applyMediaQuery(Get(mediaList[i], "query"), w, h)}

\* C15: after a getMediaOption the recorded selection is [-1] exactly when
\* no predicated unit matches the viewport and a default unit is retained;
\* when a predicated unit matches, the default unit's fragment is not in the
\* result; when nothing matches and no default unit is retained, the result
\* is empty.
C15_DefaultOnlyWithoutMatch ==
    [][\A w \in Dims, h \in Dims : GetMediaOption(w, h) =>
          /\ currentMediaIndices' = <<-1>>
                <=> (Matches(w, h) = {} /\ Truthy(mediaDefault))
          /\ (Matches(w, h) # {} /\ Truthy(mediaDefault)) =>
                \A n \in 1..Len(ret'.e) :
                    Strip(ret'.e[n]) # Strip(Get(mediaDefault, "option"))
          /\ (Matches(w, h) = {} /\ ~Truthy(mediaDefault)) =>
                ret'.e = <<>>]_vars

\* The default unit was selected, and its fragment returned, with predicated
\* units retained of which none matched
C15_Witness ==
    /\ op.name = "getMediaOption"
    /\ currentMediaIndices = <<-1>> /\ Len(mediaList) > 0
    /\ StripSeq(ret.e) = <<Strip(Get(mediaDefault, "option"))>>


RECURSIVE Ascending(_)
\* The members of a set of integers, smallest first
Ascending(S) ==
    IF S = {} THEN <<>>
    ELSE LET least == CHOOSE x \in S : \A y \in S : x <= y
         IN  <<least>> \o Ascending(S \ {least})

\* C16: when predicated units match the viewport, a non-empty result of
\* getMediaOption holds one fragment for each matching unit and no other,
\* in ascending order of the units' positions.
C16_MatchingUnitsInOrder ==
    [][\A w \in Dims, h \in Dims : GetMediaOption(w, h) =>
          ((Matches(w, h) # {} /\ ret'.e # <<>>) =>
              LET positions == Ascending(Matches(w, h))
              IN  StripSeq(ret'.e) =
                    [n \in 1..Len(positions) |->
                        Strip(Get(mediaList[positions[n]], "option"))])]_vars

\* Two units matched and the result holds their two different fragments
C16_Witness ==
    /\ op.name = "getMediaOption" /\ currentMediaIndices = <<0, 1>>
    /\ Len(ret.e) = 2 /\ Strip(ret.e[1]) # Strip(ret.e[2])
    /\ Strip(ret.e[1]) = Strip(Get(mediaList[1], "option"))


\* C17: getTimelineOption returns nothing when no timeline layer is
\* retained; when layers are retained and the timeline component gives the
\* index i of one of them, it returns a copy of layer i, sharing no object
\* with it; the call leaves every field of the manager as it was, so the
\* index is not stored.
C17_TimelineLayerAtIndex ==
    [][op'.name = "getTimelineOption" =>
          /\ Self' = Self
          /\ Len(timelineOptions) = 0 => ret' = Null
          /\ (op'.hasTimelineModel
                /\ op'.currentIndex + 1 \in 1..Len(timelineOptions)) =>
                LET layer == timelineOptions[op'.currentIndex + 1]
                IN  /\ Strip(ret') = Strip(layer)
                    /\ Owners(ret') \cap Owners(layer) = {}]_vars

\* The second of two retained layers, different from the first, was returned
C17_Witness ==
    /\ op.name = "getTimelineOption" /\ op.hasTimelineModel
    /\ op.currentIndex = 1 /\ Len(timelineOptions) = 2
    /\ Strip(ret) = Strip(timelineOptions[2])
    /\ Strip(ret) # Strip(timelineOptions[1])


\* The units of the `media` of a document that carry an option
SubmittedUnits(doc) ==
    LET media == IF Get(doc, "media").t = "arr" THEN Get(doc, "media").e
                 ELSE <<>>
    IN  SelectSeq(media, LAMBDA unit : Truthy(unit) /\ Truthy(Get(unit, "option")))

\* Those with a query, their options preprocessed as of a submission in
\* merge mode
SubmittedMediaList(doc) ==
    LET predicated == SelectSeq(SubmittedUnits(doc),
                                LAMBDA unit : Truthy(Get(unit, "query")))
    IN  [i \in 1..Len(predicated) |->
            PreprocessedUnit(predicated[i], optionPreprocessorFuncs, FALSE)]

\* Those without a query
SubmittedDefaults(doc) ==
    SelectSeq(SubmittedUnits(doc), LAMBDA unit : ~Truthy(Get(unit, "query")))

\* C18: on a manager that holds a backup, an accepted submission replaces
\* the retained timeline options exactly when it supplies a non-empty
\* `options`, the retained media list exactly when it supplies a unit with a
\* query, and the retained default unit exactly when it supplies a unit
\* without one; each of the three is decided by its own value alone, and one
\* that is not replaced stays as it was.
C18_LayersReplacedIndependently ==
    [][(op'.name = "setOption" /\ ~op'.threw /\ optionBackup # Null) =>
          /\ IF Len(SubmittedOptions(lastDoc')) # 0
             THEN StripSeq(optionBackup'.timelineOptions)
                    = StripSeq(SubmittedOptions(lastDoc'))
             ELSE optionBackup'.timelineOptions = optionBackup.timelineOptions
          /\ IF Len(SubmittedMediaList(lastDoc')) # 0
             THEN StripSeq(optionBackup'.mediaList)
                    = StripSeq(SubmittedMediaList(lastDoc'))
             ELSE optionBackup'.mediaList = optionBackup.mediaList
          /\ IF Len(SubmittedDefaults(lastDoc')) # 0
             THEN Strip(optionBackup'.mediaDefault)
                    = Strip(SubmittedDefaults(lastDoc')[1])
             ELSE optionBackup'.mediaDefault = optionBackup.mediaDefault]_vars

\* A submission with a default unit and nothing else replaced the default
\* unit of a backup and left its timeline options and its media list
C18_Witness ==
    /\ op.name = "setOption" /\ ~op.threw /\ MergeMode
    /\ Len(SubmittedDefaults(lastDoc)) # 0
    /\ Len(SubmittedMediaList(lastDoc)) = 0
    /\ Len(SubmittedOptions(lastDoc)) = 0
    /\ Len(optionBackup.timelineOptions) # 0
    /\ Len(optionBackup.mediaList) # 0
    /\ Strip(optionBackup.mediaDefault) = Strip(SubmittedDefaults(lastDoc)[1])


\* The fields of a tree other than the given ones
Without(option, keys) ==
    [k \in DOMAIN option.f \ keys |-> option.f[k]]

\* The base the document stands for: its baseOption when it has one, else
\* the document without its options, media and timeline
StatedBase(doc) ==
    IF Truthy(Get(doc, "baseOption")) THEN Get(doc, "baseOption")
    ELSE Obj("in", Without(doc, {"options", "media", "timeline"}))

\* C19: the base parsed from an accepted document is its baseOption when it
\* has one, and otherwise the document without options, media and timeline,
\* so that the other top-level fields of a document that carries one of
\* these three and no baseOption are fields of the base.  (The timeline
\* attached to the base and what the preprocessors write are left aside.)
C19_BaseDerivation ==
    (op.name = "setOption" /\ ~op.threw) =>
        Without(Strip(newBaseOption), {"timeline", "first"})
            = Without(Strip(StatedBase(lastDoc)), {"timeline", "first"})


\* A retained default: none, or one unit without a query
OneDefaultAtMost(default) ==
    default = Null \/ (default.t = "obj" /\ ~Truthy(Get(default, "query")))

\* C20: parsed from an accepted document, the media list holds the units of
\* its `media` that have a query, all of them and in document order, and the
\* default is its first unit without a query, the later ones being ignored;
\* whatever was submitted, the backup and the mounted layers hold no default
\* or one.
C20_SingleMediaDefault ==
    /\ (op.name = "setOption" /\ ~op.threw) =>
          LET parsed == parseRawOption(lastDoc, optionPreprocessorFuncs, FALSE)
              defaults == SubmittedDefaults(lastDoc)
          IN  /\ StripSeq(parsed.mediaList) = StripSeq(SubmittedMediaList(lastDoc))
              /\ IF Len(defaults) = 0 THEN parsed.mediaDefault = Null
                 ELSE Strip(parsed.mediaDefault) = Strip(defaults[1])
              /\ Len(defaults) # 0 =>
                    Strip(optionBackup.mediaDefault) = Strip(defaults[1])
    /\ OneDefaultAtMost(mediaDefault)
    /\ optionBackup # Null => OneDefaultAtMost(optionBackup.mediaDefault)

\* A document with two different units without a query was accepted by a
\* manager that held a default, and the first of the two is retained
C20_Witness ==
    /\ op.name = "setOption" /\ ~op.threw /\ MergeMode
    /\ Truthy(mediaDefault)
    /\ Len(SubmittedDefaults(lastDoc)) = 2
    /\ Strip(SubmittedDefaults(lastDoc)[1]) # Strip(SubmittedDefaults(lastDoc)[2])
    /\ Strip(optionBackup.mediaDefault) = Strip(SubmittedDefaults(lastDoc)[1])
    /\ Strip(optionBackup.mediaDefault) # Strip(mediaDefault)


\* The fragments parsed from a document, as they are before any preprocessor
\* has run: the base, the timeline layers, the options of the units with a
\* query
ParsedFragments(doc) ==
    LET parsed == parseRawOption(doc, <<>>, FALSE)
    IN  {Strip(parsed.baseOption)}
            \cup {Strip(parsed.timelineOptions[i]) :
                        i \in 1..Len(parsed.timelineOptions)}
            \cup {Strip(Get(parsed.mediaList[i], "option")) :
                        i \in 1..Len(parsed.mediaList)}

\* The option of the retained default unit, when the document has one
DefaultFragments(doc) ==
    IF Len(SubmittedDefaults(doc)) = 0 THEN {}
    ELSE {Strip(Get(SubmittedDefaults(doc)[1], "option"))}

\* The functions called on a fragment by the last setOption, in call order
CalledOn(fragment) ==
    LET calls == SelectSeq(preCalls, LAMBDA call : call.option = fragment)
    IN  [n \in 1..Len(calls) |-> calls[n].func]

\* The calls on a fragment are those of the list of preprocessors, in the
\* order of the list, once for each time the fragment was parsed
InListOrder(fragment) ==
    LET called == CalledOn(fragment)
        funcs == optionPreprocessorFuncs
    IN  /\ Len(called) >= Len(funcs)
        /\ Len(called) % Len(funcs) = 0
        /\ \A n \in 1..Len(called) : called[n] = funcs[((n - 1) % Len(funcs)) + 1]

\* C21: after an accepted setOption with a non-empty list of preprocessors,
\* every fragment parsed from the document - the base, each timeline layer,
\* the option of each unit with a query and the option of the default unit -
\* was passed to every preprocessor, in the order of the list.
C21_PreprocessingCoverage ==
    (op.name = "setOption" /\ ~op.threw /\ Len(optionPreprocessorFuncs) > 0) =>
        \A fragment \in ParsedFragments(lastDoc) \cup DefaultFragments(lastDoc) :
            InListOrder(fragment)


\* C24: every preprocessor call of an accepted setOption is made with isNew
\* true when the manager held no backup, which is the case of the first
\* accepted submission and of no other, and with isNew false otherwise.
C24_FirstSubmissionFlag ==
    [][(op'.name = "setOption" /\ ~op'.threw) =>
          /\ Len(preCalls') >= Len(optionPreprocessorFuncs)
          /\ (optionBackup = Null) <=> (nSubmits = 0)
          /\ \A n \in 1..Len(preCalls') :
                /\ preCalls'[n].isNew <=> (optionBackup = Null)
                /\ preCalls'[n].isNew <=> (nSubmits' = 1)]_vars

\* A second document, with timeline layers, was accepted and each of its
\* fragments preprocessed with isNew false
C24_Witness ==
    /\ op.name = "setOption" /\ ~op.threw /\ nSubmits = 2
    /\ Len(preCalls) > Len(optionPreprocessorFuncs)
    /\ \A n \in 1..Len(preCalls) : ~preCalls[n].isNew


\* A selection over n units: empty, the default alone, or indices of units
\* in strictly ascending order
WellShaped(indices, n) ==
    \/ indices = <<>>
    \/ indices = <<-1>>
    \/ /\ \A k \in 1..Len(indices) : indices[k] \in 0..(n - 1)
       /\ \A k \in 1..(Len(indices) - 1) : indices[k] < indices[k + 1]

\* The selection that a w x h viewport calls for, from the mounted units
SelectionFor(w, h) ==
    IF Matches(w, h) # {}
    THEN LET positions == Ascending(Matches(w, h))
         IN  [k \in 1..Len(positions) |-> positions[k] - 1]
    ELSE IF Truthy(mediaDefault) THEN <<-1>> ELSE <<>>

\* C25: in every state the recorded selection is empty, or [-1], or a
\* strictly ascending list of indices of mounted media units; and each
\* getMediaOption leaves recorded the whole selection that its viewport
\* calls for, whatever was recorded before.
C25_SelectionStateShape ==
    /\ [](WellShaped(currentMediaIndices, Len(mediaList)))
    /\ [][\A w \in Dims, h \in Dims : GetMediaOption(w, h) =>
            currentMediaIndices' = SelectionFor(w, h)]_vars

\* A call made after a mountOption left a selection of two units recorded
C25_Witness ==
    /\ op.name = "getMediaOption" /\ lastSel.known
    /\ currentMediaIndices = <<0, 1>> /\ Len(mediaList) = 2
    /\ Len(ret.e) = 2


\* The timeline descriptor at the root of the last accepted document, and
\* the one in its baseOption
RootTimeline == Get(lastDoc, "timeline")
OwnTimeline == Get(Get(lastDoc, "baseOption"), "timeline")

\* C26 as stated: when an accepted document has a timeline descriptor at its
\* root, the parsed base has that descriptor as its timeline, with or without
\* a baseOption in the document.
C26_LegacyTimelineAttached ==
    (op.name = "setOption" /\ ~op.threw /\ Truthy(RootTimeline)) =>
        Strip(Get(newBaseOption, "timeline")) = Strip(RootTimeline)

\* C26: when an accepted document has a timeline descriptor at its root and
\* its baseOption, if it has one, has no timeline of its own, the parsed base
\* has the root's descriptor as its timeline; a baseOption that has a
\* timeline of its own keeps it.
C26_LegacyTimelineUnlessOwn ==
    (op.name = "setOption" /\ ~op.threw /\ Truthy(RootTimeline)) =>
        Strip(Get(newBaseOption, "timeline"))
            = IF Truthy(OwnTimeline) THEN Strip(OwnTimeline)
              ELSE Strip(RootTimeline)

\* A document with a baseOption and a descriptor at its root was accepted,
\* and the descriptor is in the parsed base
C26_Witness ==
    /\ op.name = "setOption" /\ ~op.threw
    /\ Truthy(RootTimeline) /\ Truthy(Get(lastDoc, "baseOption"))
    /\ ~Truthy(OwnTimeline)
    /\ Strip(Get(newBaseOption, "timeline")) = Strip(RootTimeline)
    /\ Get(newBaseOption, "a") = Num(1)


\* The layers mountOption copied: what the two select calls read
MountedLayers == <<timelineOptions, mediaList, mediaDefault>>

\* C27: the mounted layers are empty at first and change in mountOption
\* only, which makes them copies of the layers of the backup; setOption
\* leaves them as they are, even when it replaces the layers of the backup.
\* getTimelineOption returns a layer of the mounted timeline options, or
\* nothing when there is none, and getMediaOption returns nothing or the
\* fragments of the mounted units that its viewport calls for.
C27_MountTimeSnapshot ==
    /\ MountedLayers = <<<<>>, <<>>, Null>>
    /\ [][/\ MountedLayers' # MountedLayers =>
               /\ op'.name = "mountOption" /\ ~op'.threw
               /\ StripSeq(timelineOptions') = StripSeq(optionBackup.timelineOptions)
               /\ StripSeq(mediaList') = StripSeq(optionBackup.mediaList)
               /\ Strip(mediaDefault') = Strip(optionBackup.mediaDefault)
          /\ op'.name = "getTimelineOption" =>
               Strip(ret') =
                   IF op'.hasTimelineModel
                       /\ op'.currentIndex + 1 \in 1..Len(timelineOptions)
                   THEN Strip(timelineOptions[op'.currentIndex + 1])
                   ELSE Null
          /\ \A w \in Dims, h \in Dims : GetMediaOption(w, h) =>
               \/ ret'.e = <<>>
               \/ StripSeq(ret'.e) = SelectedFragments(SelectionFor(w, h))]_vars

\* After a mountOption a submission replaced the timeline layers of the
\* backup by layers of another length, and getTimelineOption returned a
\* layer of the mounted ones that the backup does not hold
C27_Witness ==
    /\ op.name = "getTimelineOption" /\ ret # Null
    /\ Len(optionBackup.timelineOptions) # Len(timelineOptions)
    /\ Len(optionBackup.timelineOptions) # 0
    /\ Strip(ret) = Strip(timelineOptions[op.currentIndex + 1])
    /\ \A i \in 1..Len(optionBackup.timelineOptions) :
            Strip(ret) # Strip(optionBackup.timelineOptions[i])


\* C28: getTimelineOption changes no field of the manager; getMediaOption
\* changes the recorded selection only; mountOption changes the recorded
\* selection and the mounted layers only; none of the three changes the
\* backup (the merged base included) or the latest base; and setOption
\* changes neither the recorded selection nor the mounted layers.
C28_QueryFrame ==
    [][/\ op'.name = "getTimelineOption" => Self' = Self
       /\ op'.name = "getMediaOption" =>
            /\ MountedLayers' = MountedLayers
            /\ optionBackup' = optionBackup /\ newBaseOption' = newBaseOption
       /\ op'.name = "mountOption" =>
            optionBackup' = optionBackup /\ newBaseOption' = newBaseOption
       /\ op'.name = "setOption" =>
            /\ currentMediaIndices' = currentMediaIndices
            /\ MountedLayers' = MountedLayers]_vars

\* A selection is recorded over mounted units, which are still those of the
\* backup, after a getMediaOption that returned fragments
C28_Witness ==
    /\ op.name = "getMediaOption" /\ ret.e # <<>>
    /\ currentMediaIndices # <<>> /\ Len(mediaList) > 0
    /\ optionBackup # Null
    /\ StripSeq(mediaList) = StripSeq(optionBackup.mediaList)


-----------------------------------------------------------------------------
(* Properties of getIsInPiecewiseRange (SpecHeat) *)

\* C29: whatever the calls made before it, a call of the function returned
\* by getIsInPiecewiseRange returns what a search from the first piece
\* returns for its value.
C29_HistoryIndependent ==
    hst = "called" =>
        isInRange = IsInPiecewiseRange(pieceList, selected, 0, val).ret

====
